---- MODULE Spec2Model ----
(***************************************************************************)
(* Model of examples/hooks/llm-feedback-demo.py: a hook that reads one     *)
(* JSON document from standard input, branches on hook_event_name and      *)
(* prints one JSON document.  Python values are tagged records, Python     *)
(* dicts are sequences of <<key, value>> pairs in insertion order, and     *)
(* Python strings are TLA+ strings handled character by character.         *)
(***************************************************************************)
EXTENDS Integers, Sequences, FiniteSets, TLC

(* ---------------------------------------------------------------------- *)
(* Bounds of the explored inputs.                                         *)
(* ---------------------------------------------------------------------- *)

\* Longest text, in fragments, tried for tool_response and prompt.
MaxFrags == 2

(* ---------------------------------------------------------------------- *)
(* Python / JSON values.                                                  *)
(* ---------------------------------------------------------------------- *)

JStr(s) == [t |-> "str", s |-> s]
JInt(n) == [t |-> "int", n |-> n]
JBool(b) == [t |-> "bool", b |-> b]
JNull == [t |-> "null"]
JList(xs) == [t |-> "list", xs |-> xs]
\* A dict: its items, <<key, value>> pairs with string keys, in insertion order.
JDict(kvs) == [t |-> "dict", kvs |-> kvs]

\* A local name that no assignment has bound yet.
Unbound == [t |-> "unbound"]
\* Standard input that does not hold a JSON document.
Malformed == [t |-> "malformed"]
\* In the enumeration of inputs only: the field is left out of the object.
Absent == [t |-> "absent"]

(* ---------------------------------------------------------------------- *)
(* Strings.                                                               *)
(* ---------------------------------------------------------------------- *)

Char(s, i) == SubSeq(s, i, i)

\* Python's `sub in s` for strings.
In(sub, s) ==
    \E i \in 1..(Len(s) - Len(sub) + 1) : SubSeq(s, i, i + Len(sub) - 1) = sub

UpperLetters == "ABCDEFGHIJKLMNOPQRSTUVWXYZ"
LowerLetters == "abcdefghijklmnopqrstuvwxyz"

LowerChar(c) ==
    IF \E i \in 1..Len(UpperLetters) : Char(UpperLetters, i) = c
    THEN Char(LowerLetters, CHOOSE i \in 1..Len(UpperLetters) : Char(UpperLetters, i) = c)
    ELSE c

RECURSIVE lower(_)
\* str.lower() on the ASCII range, the range of the inputs.
lower(s) == IF s = "" THEN "" ELSE LowerChar(Char(s, 1)) \o lower(Tail(s))

RECURSIVE Escape(_, _)
\* s with a backslash put before each backslash and each occurrence of q.
Escape(s, q) ==
    IF s = "" THEN ""
    ELSE LET c == Char(s, 1)
         IN  (IF c = "\\" \/ c = q THEN "\\" \o c ELSE c) \o Escape(Tail(s), q)

Digits == "0123456789"

RECURSIVE DecStr(_)
\* The decimal digits of an integer.
DecStr(n) ==
    IF n < 0 THEN "-" \o DecStr(0 - n)
    ELSE IF n < 10 THEN Char(Digits, n + 1)
    ELSE DecStr(n \div 10) \o Char(Digits, (n % 10) + 1)

\* repr() of a str: single quotes, unless the text holds ' and no ".
StrRepr(s) ==
    IF In("'", s) /\ ~In("\"", s)
    THEN "\"" \o Escape(s, "\"") \o "\""
    ELSE "'" \o Escape(s, "'") \o "'"

RECURSIVE PyRepr(_), ReprItems(_), ReprPairs(_)
\* repr() of a value parsed from JSON.
PyRepr(v) ==
    CASE v.t = "str"  -> StrRepr(v.s)
      [] v.t = "int"  -> DecStr(v.n)
      [] v.t = "bool" -> IF v.b THEN "True" ELSE "False"
      [] v.t = "null" -> "None"
      [] v.t = "list" -> "[" \o ReprItems(v.xs) \o "]"
      [] v.t = "dict" -> "{" \o ReprPairs(v.kvs) \o "}"

ReprItems(xs) ==
    IF xs = <<>> THEN ""
    ELSE PyRepr(Head(xs)) \o (IF Len(xs) > 1 THEN ", " ELSE "") \o ReprItems(Tail(xs))

ReprPairs(kvs) ==
    IF kvs = <<>> THEN ""
    ELSE StrRepr(Head(kvs)[1]) \o ": " \o PyRepr(Head(kvs)[2])
         \o (IF Len(kvs) > 1 THEN ", " ELSE "") \o ReprPairs(Tail(kvs))

\* str() of a value: the text itself for a str, its repr otherwise.
str(v) == IF v.t = "str" THEN v.s ELSE PyRepr(v)

RECURSIVE dumps(_), DumpItems(_), DumpPairs(_)
\* json.dumps with its default separators, for printable ASCII text (other
\* characters, which json.dumps writes as \uXXXX, are not among the inputs).
dumps(v) ==
    CASE v.t = "str"  -> "\"" \o Escape(v.s, "\"") \o "\""
      [] v.t = "int"  -> DecStr(v.n)
      [] v.t = "bool" -> IF v.b THEN "true" ELSE "false"
      [] v.t = "null" -> "null"
      [] v.t = "list" -> "[" \o DumpItems(v.xs) \o "]"
      [] v.t = "dict" -> "{" \o DumpPairs(v.kvs) \o "}"

DumpItems(xs) ==
    IF xs = <<>> THEN ""
    ELSE dumps(Head(xs)) \o (IF Len(xs) > 1 THEN ", " ELSE "") \o DumpItems(Tail(xs))

DumpPairs(kvs) ==
    IF kvs = <<>> THEN ""
    ELSE dumps(JStr(Head(kvs)[1])) \o ": " \o dumps(Head(kvs)[2])
         \o (IF Len(kvs) > 1 THEN ", " ELSE "") \o DumpPairs(Tail(kvs))

(* ---------------------------------------------------------------------- *)
(* Dicts.                                                                 *)
(* ---------------------------------------------------------------------- *)

Keys(d) == {d.kvs[i][1] : i \in 1..Len(d.kvs)}

HasKey(d, k) == k \in Keys(d)

\* d[k], for a key that is present.
Item(d, k) == d.kvs[CHOOSE i \in 1..Len(d.kvs) : d.kvs[i][1] = k][2]

\* As get, with the default left out of the call: d.get(k).
GetWithoutDefault(d, k, default) == IF HasKey(d, k) THEN Item(d, k) ELSE JNull

\* d.get(k, default)
get(d, k, default) == IF HasKey(d, k) THEN Item(d, k) ELSE default

\* d[k] = v: a present key keeps its place, a new key goes last.
SetItem(d, k, v) ==
    IF HasKey(d, k)
    THEN JDict([i \in 1..Len(d.kvs) |->
                    IF d.kvs[i][1] = k THEN <<k, v>> ELSE d.kvs[i]])
    ELSE JDict(Append(d.kvs, <<k, v>>))

EmptyDict == JDict(<<>>)

(* ---------------------------------------------------------------------- *)
(* The hook's branches (lines 14-35), as functions of the locals they read.*)
(* ---------------------------------------------------------------------- *)

\* Line 20: the f-string naming the tool.
ErrorFeedback(tool_name_) ==
    "The " \o str(tool_name_)
    \o " tool encountered an error. Consider checking inputs or using an alternative approach."

ErrorContext == "Tool execution failed"
SanitizedPayload == JDict(<< <<"result", JStr("Output sanitized for security")>> >>)
SanitizedFeedback == "Sensitive data was detected and removed from output"
HelpContext == "User is asking for help, provide detailed explanations"
HelpSystemPrompt == "Be extra helpful and provide examples"

\* As AnalyzeToolResponse, without the .lower().
AnalyzeCaseSensitive(output_, tool_name_, tool_response_) ==
    IF In("error", str(tool_response_))
    THEN SetItem(SetItem(output_, "feedback", JStr(ErrorFeedback(tool_name_))),
                 "context", JStr(ErrorContext))
    ELSE output_

\* Lines 19-21.
AnalyzeToolResponse(output_, tool_name_, tool_response_) ==
    IF In("error", lower(str(tool_response_)))
    THEN SetItem(SetItem(output_, "feedback", JStr(ErrorFeedback(tool_name_))),
                 "context", JStr(ErrorContext))
    ELSE output_

\* As SanitizeSensitiveData, keeping a feedback that is already set.
SanitizeKeepingFeedback(output_, tool_response_) ==
    IF In("password", lower(str(tool_response_)))
    THEN LET o == SetItem(SetItem(output_,
                      "modifyOutput", JStr(dumps(SanitizedPayload))),
                      "suppressOutput", JBool(TRUE))
         IN  IF HasKey(o, "feedback") THEN o
             ELSE SetItem(o, "feedback", JStr(SanitizedFeedback))
    ELSE output_

\* As SanitizeSensitiveData, also labelling the run as the error check does.
SanitizeSettingContext(output_, tool_response_) ==
    IF In("password", lower(str(tool_response_)))
    THEN SetItem(SetItem(SetItem(SetItem(output_,
                 "modifyOutput", JStr(dumps(SanitizedPayload))),
                 "suppressOutput", JBool(TRUE)),
                 "feedback", JStr(SanitizedFeedback)),
                 "context", JStr(ErrorContext))
    ELSE output_

\* As SanitizeSensitiveData, without line 26.
SanitizeWithoutSuppress(output_, tool_response_) ==
    IF In("password", lower(str(tool_response_)))
    THEN SetItem(SetItem(output_,
                 "modifyOutput", JStr(dumps(SanitizedPayload))),
                 "feedback", JStr(SanitizedFeedback))
    ELSE output_

\* Lines 24-27.
SanitizeSensitiveData(output_, tool_response_) ==
    IF In("password", lower(str(tool_response_)))
    THEN SetItem(SetItem(SetItem(output_,
                 "modifyOutput", JStr(dumps(SanitizedPayload))),
                 "suppressOutput", JBool(TRUE)),
                 "feedback", JStr(SanitizedFeedback))
    ELSE output_

\* Line 33: prompt.lower() exists only on a str.
HasLower(prompt_) == prompt_.t = "str"

\* As AnalyzePrompt, with `and` for the `or` of line 33.
AnalyzePromptBoth(output_, prompt_) ==
    IF In("help", lower(prompt_.s)) /\ In("?", prompt_.s)
    THEN SetItem(SetItem(output_, "context", JStr(HelpContext)),
                 "systemPrompt", JStr(HelpSystemPrompt))
    ELSE output_

\* As AnalyzePrompt, with lines 38-40 live and the rate limit reached.
AnalyzePromptRateLimited(output_, prompt_) ==
    LET o == IF In("help", lower(prompt_.s)) \/ In("?", prompt_.s)
             THEN SetItem(SetItem(output_, "context", JStr(HelpContext)),
                          "systemPrompt", JStr(HelpSystemPrompt))
             ELSE output_
    IN  SetItem(SetItem(o, "continue", JBool(FALSE)),
                "stopReason", JStr("Rate limit exceeded"))

\* Lines 33-35, for a prompt that is a str.
AnalyzePrompt(output_, prompt_) ==
    IF In("help", lower(prompt_.s)) \/ In("?", prompt_.s)
    THEN SetItem(SetItem(output_, "context", JStr(HelpContext)),
                 "systemPrompt", JStr(HelpSystemPrompt))
    ELSE output_

\* Line 10: input_data.get exists only on a dict.
HasGet(v) == v.t = "dict"

\* The result of one run: the uncaught exception ("" for none) and what was
\* written to standard output.
Result(exc_, stdout_) == [exc |-> exc_, stdout |-> stdout_]

\* As Branch, comparing the event name without regard to case.
BranchIgnoringCase(hook_event_) ==
    IF hook_event_.t = "str" /\ lower(hook_event_.s) = "posttooluse" THEN "L15"
    ELSE IF hook_event_.t = "str" /\ lower(hook_event_.s) = "userpromptsubmit" THEN "L30"
    ELSE "L42"

\* Where lines 14 and 29 send the run.
Branch(hook_event_) ==
    IF hook_event_ = JStr("PostToolUse") THEN "L15"
    ELSE IF hook_event_ = JStr("UserPromptSubmit") THEN "L30"
    ELSE "L42"

\* Lines 8-42 as one function of standard input.
main(stdin_) ==
    IF stdin_ = Malformed THEN Result("JSONDecodeError", <<>>)
    ELSE IF ~HasGet(stdin_) THEN Result("AttributeError", <<>>)
    ELSE LET to == Branch(get(stdin_, "hook_event_name", JStr("")))
         IN  IF to = "L15"
             THEN LET tn == get(stdin_, "tool_name", JStr(""))
                      tr == get(stdin_, "tool_response", EmptyDict)
                      o1 == AnalyzeToolResponse(EmptyDict, tn, tr)
                      o2 == SanitizeSensitiveData(o1, tr)
                  IN  Result("", <<dumps(o2)>>)
             ELSE IF to = "L30"
             THEN LET p == get(stdin_, "prompt", JStr(""))
                  IN  IF HasLower(p)
                      THEN Result("", <<dumps(AnalyzePrompt(EmptyDict, p))>>)
                      ELSE Result("AttributeError", <<>>)
             ELSE Result("", <<dumps(EmptyDict)>>)

(* ---------------------------------------------------------------------- *)
(* The inputs explored.                                                   *)
(* ---------------------------------------------------------------------- *)

RECURSIVE Concats(_, _)
\* The texts made of at most n fragments of F.
Concats(F, n) ==
    IF n = 0 THEN {""}
    ELSE LET P == Concats(F, n - 1) IN P \cup {p \o f : p \in P, f \in F}

ResponseTexts ==
    Concats({"ERRor", "passWORD", "err", "or"}, MaxFrags)
    \cup {"Error: file not found", "password123", "ERROR: wrong Password"}

PromptTexts ==
    Concats({"HE", "lp", "?"}, MaxFrags) \cup {"can you help me?", "do the thing"}

EventValues ==
    {Absent, JNull, JStr(""), JStr("PostToolUse"), JStr("UserPromptSubmit"),
     JStr("posttooluse")}

ToolNameValues == {Absent, JStr("Read"), JNull}

ToolResponseValues ==
    {Absent, EmptyDict, JNull, JBool(TRUE),
     JList(<<JStr("Error"), JInt(12)>>),
     JDict(<< <<"error", JInt(0)>> >>),
     JDict(<< <<"user", JStr("it's")>>, <<"Password", JStr("x")>> >>)}
    \cup {JStr(s) : s \in ResponseTexts}

PromptValues == {Absent, JNull, JInt(5)} \cup {JStr(s) : s \in PromptTexts}

Field(k, v) == IF v = Absent THEN <<>> ELSE << <<k, v>> >>

Object(e, n, r, p) ==
    JDict(Field("hook_event_name", e) \o Field("tool_name", n)
          \o Field("tool_response", r) \o Field("prompt", p))

\* Every event with every tool_name and tool_response and a few prompts, and
\* every event with every prompt and a few tool_names and tool_responses.
Objects ==
    {Object(e, n, r, p) : e \in EventValues, n \in ToolNameValues,
                          r \in ToolResponseValues,
                          p \in {Absent, JNull, JStr("Help?")}}
    \cup
    {Object(e, n, r, p) : e \in EventValues, n \in {Absent, JStr("Read")},
                          r \in {Absent, JStr("ERROR: wrong Password")},
                          p \in PromptValues}

\* What standard input may hold: no JSON at all, a JSON value that is not an
\* object, or an object.
Inputs ==
    {Malformed, JNull, JInt(5), JStr("PostToolUse"), JList(<<>>)} \cup Objects

(* ---------------------------------------------------------------------- *)
(* One run of the script.                                                 *)
(* ---------------------------------------------------------------------- *)

VARIABLES
    stdin,          \* what standard input holds
    pc,             \* the line about to run: "L9", ..., "L42", or "exit"
    input_data,     \* line 9
    hook_event,     \* line 10
    output,         \* line 12
    tool_name,      \* line 15
    tool_response,  \* line 16
    prompt,         \* line 30
    stdout,         \* the documents written to standard output, in order
    exc             \* the uncaught exception that ended the run, "" for none

vars ==
    <<stdin, pc, input_data, hook_event, output, tool_name, tool_response,
      prompt, stdout, exc>>

Init ==
    /\ stdin \in Inputs
    /\ pc = "L9"
    /\ input_data = Unbound
    /\ hook_event = Unbound
    /\ output = Unbound
    /\ tool_name = Unbound
    /\ tool_response = Unbound
    /\ prompt = Unbound
    /\ stdout = <<>>
    /\ exc = ""

\* An uncaught exception: the traceback goes to standard error and the
\* process ends.
Raise(e) ==
    /\ exc' = e
    /\ pc' = "exit"

\* As Load, with a parse failure caught and an empty object used instead.
LoadWithFallback ==
    /\ pc = "L9"
    /\ input_data' = IF stdin = Malformed THEN EmptyDict ELSE stdin
    /\ pc' = "L10"
    /\ UNCHANGED <<stdin, hook_event, output, tool_name, tool_response, prompt, stdout,
                   exc>>

\* Line 9: input_data = json.load(sys.stdin)
Load ==
    /\ pc = "L9"
    /\ IF stdin = Malformed
       THEN /\ Raise("JSONDecodeError")
            /\ UNCHANGED input_data
       ELSE /\ input_data' = stdin
            /\ pc' = "L10"
            /\ UNCHANGED exc
    /\ UNCHANGED <<stdin, hook_event, output, tool_name, tool_response, prompt, stdout>>

\* Lines 10-14 and 29: read the event, start the output, pick the branch.
ReadEvent ==
    /\ pc = "L10"
    /\ IF HasGet(input_data)
       THEN /\ hook_event' = get(input_data, "hook_event_name", JStr(""))
            /\ output' = EmptyDict
            /\ pc' = Branch(hook_event')
            /\ UNCHANGED exc
       ELSE /\ Raise("AttributeError")
            /\ UNCHANGED <<hook_event, output>>
    /\ UNCHANGED <<stdin, input_data, tool_name, tool_response, prompt, stdout>>

\* Lines 15-16.
ReadTool ==
    /\ pc = "L15"
    /\ tool_name' = get(input_data, "tool_name", JStr(""))
    /\ tool_response' = get(input_data, "tool_response", EmptyDict)
    /\ pc' = "L19"
    /\ UNCHANGED <<stdin, input_data, hook_event, output, prompt, stdout, exc>>

\* Lines 19-21.
CheckError ==
    /\ pc = "L19"
    /\ output' = AnalyzeToolResponse(output, tool_name, tool_response)
    /\ pc' = "L24"
    /\ UNCHANGED <<stdin, input_data, hook_event, tool_name, tool_response, prompt,
                   stdout, exc>>

\* Lines 24-27.
CheckPassword ==
    /\ pc = "L24"
    /\ output' = SanitizeSensitiveData(output, tool_response)
    /\ pc' = "L42"
    /\ UNCHANGED <<stdin, input_data, hook_event, tool_name, tool_response, prompt,
                   stdout, exc>>

\* Line 30.
ReadPrompt ==
    /\ pc = "L30"
    /\ prompt' = get(input_data, "prompt", JStr(""))
    /\ pc' = "L33"
    /\ UNCHANGED <<stdin, input_data, hook_event, output, tool_name, tool_response,
                   stdout, exc>>

\* Lines 33-35.
CheckHelp ==
    /\ pc = "L33"
    /\ IF HasLower(prompt)
       THEN /\ output' = AnalyzePrompt(output, prompt)
            /\ pc' = "L42"
            /\ UNCHANGED exc
       ELSE /\ Raise("AttributeError")
            /\ UNCHANGED output
    /\ UNCHANGED <<stdin, input_data, hook_event, tool_name, tool_response, prompt,
                   stdout>>

\* As PrintOutput, printing only an output that has keys.
PrintIfNonEmpty ==
    /\ pc = "L42"
    /\ stdout' = IF output = EmptyDict THEN stdout ELSE Append(stdout, dumps(output))
    /\ pc' = "exit"
    /\ UNCHANGED <<stdin, input_data, hook_event, output, tool_name, tool_response,
                   prompt, exc>>

\* Line 42: print(json.dumps(output)), then main returns and the process ends.
PrintOutput ==
    /\ pc = "L42"
    /\ stdout' = Append(stdout, dumps(output))
    /\ pc' = "exit"
    /\ UNCHANGED <<stdin, input_data, hook_event, output, tool_name, tool_response,
                   prompt, exc>>

Next ==
    \/ Load
    \/ ReadEvent
    \/ ReadTool
    \/ CheckError
    \/ CheckPassword
    \/ ReadPrompt
    \/ CheckHelp
    \/ PrintOutput

Spec == Init /\ [][Next]_vars

(* ---------------------------------------------------------------------- *)
(* Vocabulary of the properties: the input as given, the run as observed.  *)
(* ---------------------------------------------------------------------- *)

IsObject == stdin.t = "dict"

\* The input object has field k with value v.
FieldIs(k, v) == IsObject /\ HasKey(stdin, k) /\ Item(stdin, k) = v

IsPostToolUse == FieldIs("hook_event_name", JStr("PostToolUse"))
IsUserPromptSubmit == FieldIs("hook_event_name", JStr("UserPromptSubmit"))
IsOtherEvent == IsObject /\ ~IsPostToolUse /\ ~IsUserPromptSubmit

\* The input's tool_response, rendered as text and lowercased, contains w.
ResponseContains(w) ==
    /\ IsObject
    /\ HasKey(stdin, "tool_response")
    /\ In(w, lower(str(Item(stdin, "tool_response"))))

\* The input's tool_name as the message shows it.
ToolNameText == IF HasKey(stdin, "tool_name") THEN str(Item(stdin, "tool_name")) ELSE ""

PromptIsStr == IsObject /\ HasKey(stdin, "prompt") /\ Item(stdin, "prompt").t = "str"
PromptIsBad == IsObject /\ HasKey(stdin, "prompt") /\ Item(stdin, "prompt").t # "str"

\* The prompt asks for help: 'help' in any case, or a question mark.
PromptAsks ==
    /\ PromptIsStr
    /\ \/ In("help", lower(Item(stdin, "prompt").s))
       \/ In("?", Item(stdin, "prompt").s)

Exited == pc = "exit"
\* The run printed its output and ended without an exception.
Emitted == pc = "exit" /\ exc = "" /\ stdout = <<dumps(output)>>

\* The output mapping is exactly the keys of f with the values of f.
OutputIs(f) ==
    /\ Keys(output) = DOMAIN f
    /\ \A k \in DOMAIN f : Item(output, k) = f[k]

SanitizedJson == "{\"result\": \"Output sanitized for security\"}"
SanitizedText == "Sensitive data was detected and removed from output"
FailedText == "Tool execution failed"
ErrorText(name) ==
    "The " \o name
    \o " tool encountered an error. Consider checking inputs or using an alternative approach."

\* The run's result agrees with main, the script as one function.
MainAgrees == Exited => Result(exc, stdout) = main(stdin)

(* ---------------------------------------------------------------------- *)
(* Properties.                                                            *)
(* ---------------------------------------------------------------------- *)

\* C1: PostToolUse with a response containing both 'error' and 'password':
\* after the error check feedback is the error message; the sanitization
\* write then replaces it, context stays 'Tool execution failed', and the
\* emitted output has suppressOutput true and the encoded replacement.
C1_LastWriteWins ==
    (IsPostToolUse /\ ResponseContains("error") /\ ResponseContains("password")) =>
        /\ pc = "L24" =>
              /\ Item(output, "feedback") = JStr(ErrorText(ToolNameText))
              /\ Item(output, "context") = JStr(FailedText)
        /\ pc \in {"L42", "exit"} =>
              OutputIs([feedback |-> JStr(SanitizedText),
                        context |-> JStr(FailedText),
                        suppressOutput |-> JBool(TRUE),
                        modifyOutput |-> JStr(SanitizedJson)])
        /\ Exited => Emitted

C1_Witness ==
    /\ IsPostToolUse /\ ResponseContains("error") /\ ResponseContains("password")
    /\ Emitted
    /\ Item(output, "feedback") = JStr(SanitizedText)

\* C2: PostToolUse with a response containing 'error' but not 'password':
\* the emitted output is exactly feedback (the message naming the tool) and
\* context.
C2_ErrorOnly ==
    (IsPostToolUse /\ ResponseContains("error") /\ ~ResponseContains("password")
     /\ Exited) =>
        /\ Emitted
        /\ OutputIs([feedback |-> JStr(ErrorText(ToolNameText)),
                     context |-> JStr(FailedText)])
        /\ FieldIs("tool_name", JStr("Read")) =>
              Item(output, "feedback") = JStr(
                "The Read tool encountered an error. Consider checking inputs or using an alternative approach.")

C2_Witness ==
    /\ IsPostToolUse /\ FieldIs("tool_name", JStr("Read"))
    /\ FieldIs("tool_response", JStr("Error: file not found"))
    /\ Emitted
    /\ Keys(output) = {"feedback", "context"}

\* C3: PostToolUse with a response containing 'password' but not 'error':
\* the emitted output is exactly modifyOutput, suppressOutput and feedback;
\* there is no context.
C3_PasswordOnly ==
    (IsPostToolUse /\ ResponseContains("password") /\ ~ResponseContains("error")
     /\ Exited) =>
        /\ Emitted
        /\ OutputIs([modifyOutput |-> JStr(SanitizedJson),
                     suppressOutput |-> JBool(TRUE),
                     feedback |-> JStr(SanitizedText)])
        /\ ~HasKey(output, "context")

C3_Witness ==
    /\ IsPostToolUse /\ FieldIs("tool_response", JStr("password123"))
    /\ Emitted
    /\ HasKey(output, "modifyOutput")

\* C4: UserPromptSubmit: an emitted output is exactly context and
\* systemPrompt when the prompt contains 'help' in any case or a '?', and
\* is empty otherwise; a prompt that is a string or absent always emits.
C4_PromptHelp ==
    (IsUserPromptSubmit /\ Exited) =>
        /\ ~PromptIsBad => Emitted
        /\ Emitted =>
              IF PromptAsks
              THEN OutputIs([context |-> JStr("User is asking for help, provide detailed explanations"),
                             systemPrompt |-> JStr("Be extra helpful and provide examples")])
              ELSE output = EmptyDict /\ stdout = <<"{}">>

C4_Witness ==
    /\ IsUserPromptSubmit /\ Emitted
    /\ PromptAsks
    /\ ~In("?", Item(stdin, "prompt").s)
    /\ ~In("help", Item(stdin, "prompt").s)
    /\ HasKey(output, "systemPrompt")

\* C5: an absent or unrecognized event name (also one differing only in
\* case) emits {} whatever the other fields hold; a recognized event in
\* which no condition matches emits {} as well.
C5_DefaultEmpty ==
    /\ (IsOtherEvent /\ Exited) =>
          Emitted /\ output = EmptyDict /\ stdout = <<"{}">>
    /\ (IsPostToolUse /\ ~ResponseContains("error") /\ ~ResponseContains("password")
        /\ Exited) =>
          Emitted /\ output = EmptyDict /\ stdout = <<"{}">>
    /\ (IsUserPromptSubmit /\ ~PromptIsBad /\ ~PromptAsks /\ Exited) =>
          Emitted /\ output = EmptyDict /\ stdout = <<"{}">>

C5_Witness ==
    /\ FieldIs("hook_event_name", JStr("posttooluse"))
    /\ ResponseContains("error")
    /\ PromptIsBad
    /\ Emitted
    /\ stdout = <<"{}">>

\* C6 as stated: every input that is a JSON object ends with exactly one
\* document written and no exception.
C6_Original ==
    (IsObject /\ Exited) => (exc = "" /\ Len(stdout) = 1)

\* The source line a value of pc stands for; 43 is past the end of main.
LineNo ==
    [l \in {"L9", "L10", "L15", "L19", "L24", "L30", "L33", "L42", "exit"} |->
        CASE l = "L9" -> 9 [] l = "L10" -> 10 [] l = "L15" -> 15 [] l = "L19" -> 19
          [] l = "L24" -> 24 [] l = "L30" -> 30 [] l = "L33" -> 33 [] l = "L42" -> 42
          [] l = "exit" -> 43]

\* C6, amended: every input that is a JSON object, unless its event is
\* UserPromptSubmit and its prompt is present and not a string, writes
\* nothing before line 42, then exactly one document, the encoding of the
\* finished output, and ends without an exception; the run only moves
\* forward through the lines, so it ends.
C6_OneDocument ==
    /\ []((IsObject /\ ~(IsUserPromptSubmit /\ PromptIsBad)) =>
            /\ ~Exited => (stdout = <<>> /\ exc = "" /\ pc \in DOMAIN LineNo)
            /\ Exited => (Emitted /\ Len(stdout) = 1))
    /\ [][/\ LineNo[pc'] > LineNo[pc]
          /\ stdout' # stdout => (pc = "L42" /\ pc' = "exit" /\ output' = output)]_vars

C6_Witness ==
    /\ IsObject /\ ~(IsUserPromptSubmit /\ PromptIsBad)
    /\ Keys(stdin) = {}
    /\ Emitted

\* C7: the keys of the output are among feedback, context, modifyOutput,
\* suppressOutput and systemPrompt, at every point of every run; continue
\* and stopReason never appear.
C7_KnownKeys ==
    output # Unbound =>
        /\ Keys(output) \subseteq
              {"feedback", "context", "modifyOutput", "suppressOutput", "systemPrompt"}
        /\ "continue" \notin Keys(output)
        /\ "stopReason" \notin Keys(output)

C7_Witness ==
    /\ Emitted
    /\ IsUserPromptSubmit
    /\ Keys(output) = {"context", "systemPrompt"}

\* C8: malformed standard input ends the run at line 9 with the parser's
\* exception, nothing bound and nothing written; and a run that ends with
\* an exception, whichever, has written nothing.
C8_ParseFailure ==
    /\ stdin = Malformed =>
          /\ pc \in {"L9", "exit"}
          /\ input_data = Unbound /\ output = Unbound
          /\ stdout = <<>>
          /\ Exited => exc = "JSONDecodeError"
    /\ exc # "" => (Exited /\ stdout = <<>>)

C8_Witness == stdin = Malformed /\ Exited /\ exc = "JSONDecodeError"

\* The input object with field k added, holding v.
WithField(k, v) == JDict(Append(stdin.kvs, <<k, v>>))

\* The run ended as main ends on the input with the absent field k set to v.
AbsentActsAs(k, v) ==
    ~HasKey(stdin, k) => Result(exc, stdout) = main(WithField(k, v))

\* C9: for an input object, a run with a field absent ends as the run with
\* that field set to its default ('' for hook_event_name, tool_name and
\* prompt, {} for tool_response); no exception comes from an absent field;
\* PostToolUse without tool_response and UserPromptSubmit without prompt
\* emit {}.
C9_AbsentIsDefault ==
    (IsObject /\ Exited) =>
        /\ AbsentActsAs("hook_event_name", JStr(""))
        /\ AbsentActsAs("tool_name", JStr(""))
        /\ AbsentActsAs("tool_response", JDict(<<>>))
        /\ AbsentActsAs("prompt", JStr(""))
        /\ exc # "" => HasKey(stdin, "prompt")
        /\ (IsPostToolUse /\ ~HasKey(stdin, "tool_response")) =>
              (Emitted /\ stdout = <<"{}">>)
        /\ (IsUserPromptSubmit /\ ~HasKey(stdin, "prompt")) =>
              (Emitted /\ stdout = <<"{}">>)

C9_Witness ==
    /\ IsUserPromptSubmit
    /\ ~HasKey(stdin, "prompt") /\ ~HasKey(stdin, "tool_name")
    /\ Emitted

\* C10: in an emitted output modifyOutput is present exactly when
\* suppressOutput is present, exactly when feedback is the sanitization
\* message, exactly when the event is PostToolUse and the response contains
\* 'password'; suppressOutput is never false; systemPrompt comes with none
\* of feedback, modifyOutput and suppressOutput.
C10_SanitizationAllOrNothing ==
    Emitted =>
        LET sanitized == IsPostToolUse /\ ResponseContains("password")
        IN  /\ HasKey(output, "modifyOutput") <=> sanitized
            /\ HasKey(output, "suppressOutput") <=> sanitized
            /\ (HasKey(output, "feedback")
                /\ Item(output, "feedback") = JStr(SanitizedText)) <=> sanitized
            /\ HasKey(output, "suppressOutput") =>
                  Item(output, "suppressOutput") = JBool(TRUE)
            /\ HasKey(output, "systemPrompt") =>
                  Keys(output) \cap {"feedback", "modifyOutput", "suppressOutput"} = {}

C10_Witness ==
    /\ Emitted
    /\ IsPostToolUse /\ ResponseContains("password")
    /\ Keys(output) = {"modifyOutput", "suppressOutput", "feedback"}

====
